---- MODULE Spec2Model ----
(***************************************************************************)
(* The patch overlay and the derived views of the alignment viewer         *)
(* (src/app.js).                                                           *)
(*                                                                         *)
(* A JavaScript string is a sequence of one-character strings, so that     *)
(* toLowerCase, includes and localeCompare are computed and not assumed.   *)
(* A JavaScript object is a function whose DOMAIN is the set of its        *)
(* present properties; an absent property is a name outside the DOMAIN.    *)
(* A nullable slot holds either null or a record.                          *)
(***************************************************************************)
EXTENDS Integers, Sequences, FiniteSets, TLC

VARIABLES alignments, glossary, rules, sidebarSearch, selectedWord,
          editingEntry, patches, localStorage, modalEl, typedCount, lastSave

vars == <<alignments, glossary, rules, sidebarSearch, selectedWord,
          editingEntry, patches, localStorage, modalEl, typedCount, lastSave>>

(***************************************************************************)
(* Bounds of the model.                                                    *)
(***************************************************************************)
\* input events on the fields of the modal in one behaviour
MaxTyped == 2

(***************************************************************************)
(* Values.                                                                 *)
(***************************************************************************)
null == [null |-> TRUE]

\* the empty string ''
EmptyText == <<>>

\* the result limit of the glossary view
Limit == 50

(***************************************************************************)
(* String primitives.                                                      *)
(***************************************************************************)
\* the letters of the data, in collation order (punctuation, digits, letters)
Alphabet == <<"?", "1", "2", "9", "a", "b", "d", "g", "k", "l", "n", "p", "q", "r", "s", "t", "v", "x">>

UpperToLower == [c \in {"A", "B", "P", "Q"} |->
                   CASE c = "A" -> "a" [] c = "B" -> "b" [] c = "P" -> "p" [] c = "Q" -> "q"]

toLowerChar(c) == IF c \in DOMAIN UpperToLower THEN UpperToLower[c] ELSE c

\* String.prototype.toLowerCase
toLowerCase(s) == [i \in 1..Len(s) |-> toLowerChar(s[i])]

\* String.prototype.includes
includes(s, sub) ==
    \E i \in 1..(Len(s) + 1) :
        /\ i + Len(sub) - 1 <= Len(s)
        /\ SubSeq(s, i, i + Len(sub) - 1) = sub

\* primary collation weight of a character: its letter, whatever its case
Primary(c) == CHOOSE i \in 1..Len(Alphabet) : Alphabet[i] = toLowerChar(c)

\* tertiary collation weight: lower case sorts before upper case
Tertiary(c) == IF c \in DOMAIN UpperToLower THEN 1 ELSE 0

RECURSIVE CompareBy(_, _, _)
CompareBy(a, b, weight) ==
    IF a = <<>> /\ b = <<>> THEN 0
    ELSE IF a = <<>> THEN -1
    ELSE IF b = <<>> THEN 1
    ELSE IF weight[Head(a)] < weight[Head(b)] THEN -1
    ELSE IF weight[Head(a)] > weight[Head(b)] THEN 1
    ELSE CompareBy(Tail(a), Tail(b), weight)

AllChars == {Alphabet[i] : i \in 1..Len(Alphabet)} \cup DOMAIN UpperToLower

\* String.prototype.localeCompare: letters first, case only to break a tie
localeCompare(a, b) ==
    LET p == CompareBy(a, b, [c \in AllChars |-> Primary(c)])
    IN  IF p # 0 THEN p ELSE CompareBy(a, b, [c \in AllChars |-> Tertiary(c)])

\* truthiness of a property that holds a string when present
Truthy(obj, f) == f \in DOMAIN obj /\ obj[f] # EmptyText

\* obj[f] || ''
OrEmpty(obj, f) == IF Truthy(obj, f) THEN obj[f] ELSE EmptyText

\* { ...a, ...b }
Spread(a, b) ==
    [f \in DOMAIN a \cup DOMAIN b |-> IF f \in DOMAIN b THEN b[f] ELSE a[f]]

\* Array.prototype.filter
RECURSIVE Filter(_, _)
Filter(s, keep) ==
    IF s = <<>> THEN <<>>
    ELSE IF keep[Head(s)] THEN <<Head(s)>> \o Filter(Tail(s), keep)
    ELSE Filter(Tail(s), keep)

Range(s) == {s[i] : i \in 1..Len(s)}

\* Array.prototype.slice(0, n)
Slice(s, n) == SubSeq(s, 1, IF Len(s) < n THEN Len(s) ELSE n)

\* insertion of x into a list sorted by form: after every element that does
\* not compare greater, which makes the sort stable
RECURSIVE InsertByForm(_, _, _)
InsertByForm(x, s, form) ==
    IF s = <<>> THEN <<x>>
    ELSE IF localeCompare(form[Head(s)], form[x]) <= 0
         THEN <<Head(s)>> \o InsertByForm(x, Tail(s), form)
         ELSE <<x>> \o s

\* [...s].sort((a, b) => form(a).localeCompare(form(b))), a stable sort
RECURSIVE SortByForm(_, _)
SortByForm(s, form) ==
    IF s = <<>> THEN <<>>
    ELSE InsertByForm(s[Len(s)], SortByForm(SubSeq(s, 1, Len(s) - 1), form), form)

(***************************************************************************)
(* The documents a user can upload, as JSON.parse returns them.            *)
(***************************************************************************)
GlossaryFile ==
    [entries |-> <<
        [id |-> <<"g", "1">>, form |-> <<"b">>, gloss |-> <<"l">>, pos |-> <<"v">>],
        [id |-> <<"g", "2">>, form |-> <<"a">>, gloss |-> <<"P">>, pos |-> <<"n">>,
         notes |-> <<"x">>] >>]

\* the first rule has no description, which is optional
RulesFile ==
    [rules |-> <<
        [id |-> <<"r", "1">>, form |-> <<"s">>, gloss |-> <<"k">>, type |-> <<"x">>],
        [id |-> <<"r", "2">>, form |-> <<"q">>, gloss |-> <<"P">>, type |-> <<"x">>,
         description |-> <<"p", "l">>] >>]

\* line 1: a known and an unknown morpheme; a second unknown morpheme of the
\* same form and another gloss.  line 2: a rule morpheme and a dangling rule
\* reference; a word without morphemes.
AlignmentsFile ==
    [alignments |-> <<
        [words |-> <<
            [word |-> <<"a", "d">>, morphemes |-> <<
                [form |-> <<"a">>, gloss |-> <<"P">>, type |-> "known",
                 source_type |-> "glossary", source_id |-> <<"g", "2">>],
                [form |-> <<"d">>, gloss |-> <<"?">>, type |-> "unknown"] >>],
            [word |-> <<"d">>, morphemes |-> <<
                [form |-> <<"d">>, gloss |-> <<"P">>, type |-> "unknown"] >>] >>],
        [words |-> <<
            [word |-> <<"q", "s">>, morphemes |-> <<
                [form |-> <<"q">>, gloss |-> <<"P">>, type |-> "known",
                 source_type |-> "rule", source_id |-> <<"r", "2">>],
                [form |-> <<"s">>, gloss |-> <<"k">>, type |-> "known",
                 source_type |-> "rule", source_id |-> <<"r", "9">>] >>],
            [word |-> <<>>, morphemes |-> <<>>] >>] >>]

\* what a chosen file parses to; Unparsable stands for a JSON.parse failure
Unparsable == [unparsable |-> TRUE]
NoFile == [nofile |-> TRUE]

Files(type) ==
    {NoFile, Unparsable} \cup
        (CASE type = "alignments" -> {AlignmentsFile}
           [] type = "glossary" -> {GlossaryFile}
           [] type = "rules" -> {RulesFile})

UploadTypes == {"alignments", "glossary", "rules"}

\* what the user types into a modal input or the sidebar search box
EditTexts == {EmptyText, <<"P">>}
SearchTexts == {EmptyText, <<"P">>}

\* the content of the aila2-patches item when the page is opened
StoredItems == {null, [corrupt |-> TRUE]}

(***************************************************************************)
(* Patch storage.                                                          *)
(***************************************************************************)
\* JSON.stringify of the store: the members of the object, each with the
\* members of its patch
Stringify(p) ==
    [json |-> {<<k, {<<f, p[k][f]>> : f \in DOMAIN p[k]}>> : k \in DOMAIN p}]

\* JSON.parse of an item written by Stringify
Parse(item) ==
    LET members == item.json
        keys == {m[1] : m \in members}
        patchOf(k) == (CHOOSE m \in members : m[1] = k)[2]
    IN  [k \in keys |->
            [f \in {fv[1] : fv \in patchOf(k)} |->
                (CHOOSE fv \in patchOf(k) : fv[1] = f)[2]]]

loadPatches(item) ==
    IF item = null \/ "corrupt" \in DOMAIN item THEN <<>> ELSE Parse(item)

savePatches(p) == Stringify(p)

\* `${type}:${idOrForm}`
getPatchKey(type, idOrForm) == <<type, ":">> \o idOrForm

\* Unknown entries use form as identifier, others use id
Identifier(type, entry) == IF type = "unknown" THEN entry.form ELSE entry.id

getEntryWithPatchIn(store, type, entry) ==
    LET key == getPatchKey(type, Identifier(type, entry))
    IN  IF key \in DOMAIN store THEN Spread(entry, store[key]) ELSE entry

getEntryWithPatch(type, entry) == getEntryWithPatchIn(patches, type, entry)

hasPatched(type, idOrForm) == getPatchKey(type, idOrForm) \in DOMAIN patches


(***************************************************************************)
(* Helpers and derived views.                                              *)
(***************************************************************************)
isDataLoaded == alignments # null /\ glossary # null /\ rules # null

\* m.source_type === t, false when the property is absent
SourceTypeIs(m, t) == "source_type" \in DOMAIN m /\ m.source_type = t

\* the source_id values of the morphemes of word whose source_type is t
SourceIds(word, t) ==
    {m.source_id : m \in {n \in Range(word.morphemes) : SourceTypeIs(n, t)}}

\* IsUnpatched without the test for an empty gloss
IsUnpatchedIgnoringEmpty(store, m) ==
    LET patch == getEntryWithPatchIn(store, "unknown", m)
    IN  "gloss" \in DOMAIN patch /\ patch.gloss = m.gloss

\* the callback that collects unpatchedUnknowns
IsUnpatched(store, m) ==
    LET patch == getEntryWithPatchIn(store, "unknown", m)
    IN  ~Truthy(patch, "gloss") \/ patch.gloss = m.gloss

\* getWordStatus, reading the patches of store
getWordStatusIn(store, word) ==
    LET unknownMorphemes == Filter(word.morphemes,
            [m \in Range(word.morphemes) |-> m.type = "unknown"])
        knownMorphemes == Filter(word.morphemes,
            [m \in Range(word.morphemes) |-> m.type # "unknown"])
        unpatchedUnknowns == Filter(unknownMorphemes,
            [m \in Range(unknownMorphemes) |-> IsUnpatched(store, m)])
        hasUnpatched == Len(unpatchedUnknowns) > 0
        hasPatchedUnknown == Len(unknownMorphemes) > Len(unpatchedUnknowns)
        hasKnown == Len(knownMorphemes) > 0
    IN  IF hasUnpatched /\ (hasKnown \/ hasPatchedUnknown) THEN "mixed"
        ELSE IF hasUnpatched THEN "unknown"
        ELSE IF hasPatchedUnknown THEN "patched"
        ELSE "known"

getWordStatus(word) == getWordStatusIn(patches, word)

\* Scope without the test for a word that names no entry of kind t
ScopeEvenIfNone(list, t) ==
    IF selectedWord # null
    THEN Filter(list, [e \in Range(list) |-> e.id \in SourceIds(selectedWord.word, t)])
    ELSE list

\* the entries left by the selected word, when it names any of kind t
Scope(list, t) ==
    IF selectedWord # null /\ SourceIds(selectedWord.word, t) # {}
    THEN Filter(list, [e \in Range(list) |-> e.id \in SourceIds(selectedWord.word, t)])
    ELSE list

\* the callback of the glossary search filter
GlossaryMatches(e, search) ==
    LET patched == getEntryWithPatch("glossary", e)
    IN  \/ includes(toLowerCase(patched.form), search)
        \/ includes(toLowerCase(patched.gloss), search)

\* the entries of getFilteredGlossary before they are sorted
FoundGlossary ==
    LET search == toLowerCase(sidebarSearch)
        scoped == Scope(glossary.entries, "glossary")
    IN  IF search # EmptyText
        THEN Filter(scoped, [e \in Range(scoped) |-> GlossaryMatches(e, search)])
        ELSE scoped

getFilteredGlossary ==
    IF glossary = null THEN <<>>
    ELSE Slice(SortByForm(FoundGlossary, [e \in Range(FoundGlossary) |-> e.form]), Limit)

\* the callback of the rule search filter: "true", "false", or "TypeError"
\* when toLowerCase is called on an undefined description
RuleMatches(r, search) ==
    LET patched == getEntryWithPatch("rule", r)
    IN  IF \/ includes(toLowerCase(patched.form), search)
           \/ includes(toLowerCase(patched.gloss), search)
        THEN "true"
        ELSE IF "description" \notin DOMAIN patched THEN "TypeError"
        ELSE IF includes(toLowerCase(patched.description), search) THEN "true"
        ELSE "false"

\* [threw |-> TRUE] when the call raises, else the returned list
getFilteredRules ==
    IF rules = null THEN [threw |-> FALSE, value |-> <<>>]
    ELSE LET search == toLowerCase(sidebarSearch)
             scoped == Scope(rules.rules, "rule")
         IN  IF search # EmptyText
             THEN IF \E r \in Range(scoped) : RuleMatches(r, search) = "TypeError"
                  THEN [threw |-> TRUE, value |-> <<>>]
                  ELSE LET found == Filter(scoped,
                               [r \in Range(scoped) |-> RuleMatches(r, search) = "true"])
                       IN  [threw |-> FALSE,
                            value |-> SortByForm(found, [r \in Range(found) |-> r.form])]
             ELSE [threw |-> FALSE,
                   value |-> SortByForm(scoped, [r \in Range(scoped) |-> r.form])]

\* Array.prototype.find on the id: the first match, or NotFound
NotFound == [notfound |-> TRUE]

FindById(list, id) ==
    LET hits == {i \in 1..Len(list) : list[i].id = id}
    IN  IF hits = {} THEN NotFound
        ELSE list[CHOOSE i \in hits : \A j \in hits : i <= j]

\* MorphemeEntry without the patches
MorphemeEntryUnpatched(m) ==
    IF SourceTypeIs(m, "glossary") /\ FindById(glossary.entries, m.source_id) # NotFound
    THEN [type |-> "glossary", entry |-> FindById(glossary.entries, m.source_id),
          originalEntry |-> FindById(glossary.entries, m.source_id), morpheme |-> m]
    ELSE IF SourceTypeIs(m, "rule") /\ FindById(rules.rules, m.source_id) # NotFound
    THEN [type |-> "rule", entry |-> FindById(rules.rules, m.source_id),
          originalEntry |-> FindById(rules.rules, m.source_id), morpheme |-> m]
    ELSE [type |-> "unknown", morpheme |-> m]

\* the callback of getMorphemeEntries
MorphemeEntry(m) ==
    IF SourceTypeIs(m, "glossary")
    THEN LET entry == FindById(glossary.entries, m.source_id)
         IN  IF entry # NotFound
             THEN [type |-> "glossary", entry |-> getEntryWithPatch("glossary", entry),
                   originalEntry |-> entry, morpheme |-> m]
             ELSE [type |-> "unknown", morpheme |-> m]
    ELSE IF SourceTypeIs(m, "rule")
    THEN LET rule == FindById(rules.rules, m.source_id)
         IN  IF rule # NotFound
             THEN [type |-> "rule", entry |-> getEntryWithPatch("rule", rule),
                   originalEntry |-> rule, morpheme |-> m]
             ELSE [type |-> "unknown", morpheme |-> m]
    ELSE [type |-> "unknown", morpheme |-> m]

getMorphemeEntries(word) ==
    IF word = null THEN <<>>
    ELSE [i \in 1..Len(word.morphemes) |-> MorphemeEntry(word.morphemes[i])]

(***************************************************************************)
(* What the page shows, which decides the handlers a user can reach.       *)
(***************************************************************************)
\* the words of the alignment lines, each with its position: two words are
\* the same object iff they stand at the same position
Words ==
    IF alignments = null THEN {}
    ELSE {[line |-> i, index |-> j, word |-> alignments.alignments[i].words[j]] :
            i \in 1..Len(alignments.alignments),
            j \in 1..Len(alignments.alignments[1].words)}

\* the cards of the sidebar, as the arguments their onClick gives openEditModal
Cards ==
    IF selectedWord # null
    THEN {IF item.type = "unknown"
          THEN [type |-> "unknown", entry |-> item.morpheme]
          ELSE [type |-> item.type, entry |-> item.originalEntry] :
            item \in Range(getMorphemeEntries(selectedWord.word))}
    ELSE IF getFilteredRules.threw THEN {}
    ELSE {[type |-> "glossary", entry |-> e] : e \in Range(getFilteredGlossary)}
         \cup {[type |-> "rule", entry |-> r] : r \in Range(getFilteredRules.value)}

\* EditModal is rendered: its overlay covers the page, and a click outside
\* the modal lands on the overlay
ModalShown == isDataLoaded /\ editingEntry # null

\* the main view is rendered and not covered
MainViewShown == isDataLoaded /\ ~ModalShown

\* the data-field inputs of the modal
ModalFields(type) ==
    IF type = "rule" THEN {"form", "gloss", "type", "description"}
    ELSE {"form", "gloss", "pos", "notes"}

\* input.value: what the user typed, else the value the modal was rendered with
InputValue(f) ==
    IF f \in DOMAIN modalEl THEN modalEl[f]
    ELSE LET patched == getEntryWithPatch(editingEntry.type, editingEntry.entry)
         IN  IF f = "form" THEN patched.form ELSE OrEmpty(patched, f)

(***************************************************************************)
(* The handlers.  typedCount counts the input events on the modal, to      *)
(* bound them.  lastSave observes what the handler that ran last did when  *)
(* it was savePatch: "skipped" when it did not call savePatches, "created" *)
(* when it stored the first patch of the key, "merged" when it merged into *)
(* the patch of the key; "none" after any other handler.                   *)
(***************************************************************************)
Init ==
    /\ alignments = null
    /\ glossary = null
    /\ rules = null
    /\ sidebarSearch = EmptyText
    /\ selectedWord = null
    /\ editingEntry = null
    /\ localStorage \in StoredItems
    /\ patches = loadPatches(localStorage)
    /\ modalEl = <<>>
    /\ typedCount = 0
    /\ lastSave = "none"

\* the change handler of an upload zone together with the onload callback of
\* its FileReader
handleFileUpload(type, file) ==
    /\ ~isDataLoaded
    /\ IF file = NoFile \/ file = Unparsable
       THEN UNCHANGED <<alignments, glossary, rules>>
       ELSE /\ alignments' = IF type = "alignments" THEN file ELSE alignments
            /\ glossary' = IF type = "glossary" THEN file ELSE glossary
            /\ rules' = IF type = "rules" THEN file ELSE rules
    /\ lastSave' = "none"
    /\ UNCHANGED <<sidebarSearch, selectedWord, editingEntry, patches, localStorage,
                   modalEl, typedCount>>

selectWord(word) ==
    /\ MainViewShown
    /\ word \in Words
    /\ selectedWord' = IF selectedWord = word THEN null ELSE word
    /\ lastSave' = "none"
    /\ UNCHANGED <<alignments, glossary, rules, sidebarSearch, editingEntry, patches,
                   localStorage, modalEl, typedCount>>

deselectWord ==
    /\ MainViewShown
    /\ selectedWord # null
    /\ selectedWord' = null
    /\ lastSave' = "none"
    /\ UNCHANGED <<alignments, glossary, rules, sidebarSearch, editingEntry, patches,
                   localStorage, modalEl, typedCount>>

\* the onInput handler of the sidebar search box
inputSidebarSearch(value) ==
    /\ MainViewShown
    /\ selectedWord = null
    /\ sidebarSearch' = value
    /\ lastSave' = "none"
    /\ UNCHANGED <<alignments, glossary, rules, selectedWord, editingEntry, patches,
                   localStorage, modalEl, typedCount>>

\* reset that also empties the store
resetClearingPatches ==
    /\ MainViewShown
    /\ alignments' = null
    /\ glossary' = null
    /\ rules' = null
    /\ sidebarSearch' = EmptyText
    /\ selectedWord' = null
    /\ patches' = <<>>
    /\ lastSave' = "none"
    /\ UNCHANGED <<editingEntry, localStorage, modalEl, typedCount>>

reset ==
    /\ MainViewShown
    /\ alignments' = null
    /\ glossary' = null
    /\ rules' = null
    /\ sidebarSearch' = EmptyText
    /\ selectedWord' = null
    /\ lastSave' = "none"
    /\ UNCHANGED <<editingEntry, patches, localStorage, modalEl, typedCount>>

openEditModal(type, entry) ==
    /\ MainViewShown
    /\ [type |-> type, entry |-> entry] \in Cards
    /\ editingEntry' = [type |-> type, entry |-> entry]
    /\ modalEl' = <<>>
    /\ lastSave' = "none"
    /\ UNCHANGED <<alignments, glossary, rules, sidebarSearch, selectedWord, patches,
                   localStorage, typedCount>>

closeModal ==
    /\ ModalShown
    /\ editingEntry' = null
    /\ modalEl' = <<>>
    /\ lastSave' = "none"
    /\ UNCHANGED <<alignments, glossary, rules, sidebarSearch, selectedWord, patches,
                   localStorage, typedCount>>

\* the user retypes one input of the modal
inputModalField(field, value) ==
    /\ ModalShown
    /\ field \in ModalFields(editingEntry.type)
    /\ typedCount < MaxTyped
    /\ modalEl' = [f \in DOMAIN modalEl \cup {field} |->
                      IF f = field THEN value ELSE modalEl[f]]
    /\ typedCount' = typedCount + 1
    /\ lastSave' = "none"
    /\ UNCHANGED <<alignments, glossary, rules, sidebarSearch, selectedWord,
                   editingEntry, patches, localStorage>>

\* the patch savePatch collects: the fields of the modal whose value differs
\* from the entry's
DiffPatch(type, entry) ==
    [f \in {g \in ModalFields(type) : InputValue(g) # OrEmpty(entry, g)} |->
        InputValue(f)]

\* IsWorthSaving without the test
IsWorthSavingAlways(patch) == TRUE

\* Object.keys(patch).length > 0
IsWorthSaving(patch) == DOMAIN patch # {}

\* MergePatch that replaces the patch of the key
MergePatchReplacing(store, key, patch) ==
    [k \in DOMAIN store \cup {key} |-> IF k = key THEN patch ELSE store[k]]

\* { ...state.patches, [key]: { ...state.patches[key], ...patch } }
MergePatch(store, key, patch) ==
    [k \in DOMAIN store \cup {key} |->
        IF k = key
        THEN Spread(IF key \in DOMAIN store THEN store[key] ELSE <<>>, patch)
        ELSE store[k]]

savePatch ==
    /\ ModalShown
    /\ LET type == editingEntry.type
           entry == editingEntry.entry
           key == getPatchKey(type, Identifier(type, entry))
           patch == DiffPatch(type, entry)
       IN  IF IsWorthSaving(patch)
           THEN /\ patches' = MergePatch(patches, key, patch)
                /\ localStorage' = savePatches(patches')
                /\ lastSave' = IF key \in DOMAIN patches THEN "merged" ELSE "created"
           ELSE /\ UNCHANGED <<patches, localStorage>>
                /\ lastSave' = "skipped"
    /\ editingEntry' = null
    /\ modalEl' = <<>>
    /\ UNCHANGED <<alignments, glossary, rules, sidebarSearch, selectedWord, typedCount>>

Next ==
    \/ \E type \in UploadTypes : \E file \in Files(type) : handleFileUpload(type, file)
    \/ \E word \in Words : selectWord(word)
    \/ deselectWord
    \/ \E value \in SearchTexts : inputSidebarSearch(value)
    \/ reset
    \/ \E card \in Cards : openEditModal(card.type, card.entry)
    \/ closeModal
    \/ \E field \in {"form", "gloss", "pos", "notes", "type", "description"} :
          \E value \in EditTexts : inputModalField(field, value)
    \/ savePatch

Spec == Init /\ [][Next]_vars

(***************************************************************************)
(* Vocabulary of the properties.                                           *)
(***************************************************************************)
Kinds == {"glossary", "rule", "unknown"}

AllWords ==
    {AlignmentsFile.alignments[i].words[j] :
        i \in 1..Len(AlignmentsFile.alignments),
        j \in 1..Len(AlignmentsFile.alignments[1].words)}

AllMorphemes == UNION {Range(w.morphemes) : w \in AllWords}

\* the base records of a kind
BaseRecords(kind) ==
    CASE kind = "glossary" -> Range(GlossaryFile.entries)
      [] kind = "rule" -> Range(RulesFile.rules)
      [] kind = "unknown" -> {m \in AllMorphemes : m.type = "unknown"}

\* the key an entry of a kind is stored under
KeyOf(kind, record) ==
    <<kind, ":">> \o (IF kind = "unknown" THEN record.form ELSE record.id)

\* in a state that shows the modal: the key under edit, the value submitted
\* for a field, and the fields whose submitted value differs from the
\* value of the record under edit (an absent field counting as empty)
EditKey == KeyOf(editingEntry.type, editingEntry.entry)

Submitted(f) == InputValue(f)

BaseValue(f) ==
    IF f \in DOMAIN editingEntry.entry THEN editingEntry.entry[f] ELSE EmptyText

Retained == {f \in ModalFields(editingEntry.type) : Submitted(f) # BaseValue(f)}

FieldsOf(store, k) == IF k \in DOMAIN store THEN DOMAIN store[k] ELSE {}

\* C1: a field stored in the patch of a key by an earlier edit is still there
\* with its earlier value after a later savePatch, unless that savePatch is on
\* the same key and retains the field, and then the submitted value is
\* stored; the patch of the edited key holds exactly the fields it held
\* before together with the retained fields of the edit.
C1_MergeKeepsEarlierFields ==
    [][ /\ \A k \in DOMAIN patches :
              /\ k \in DOMAIN patches'
              /\ \A f \in DOMAIN patches[k] :
                    /\ f \in DOMAIN patches'[k]
                    /\ \/ patches'[k][f] = patches[k][f]
                       \/ savePatch /\ k = EditKey /\ f \in Retained
        /\ savePatch /\ Retained # {} =>
              /\ FieldsOf(patches', EditKey) = FieldsOf(patches, EditKey) \cup Retained
              /\ \A f \in Retained : patches'[EditKey][f] = Submitted(f)
      ]_vars

\* C1 witness: the last handler merged an edit into an existing patch, which
\* now holds two fields
C1_Witness ==
    /\ lastSave = "merged"
    /\ \E k \in DOMAIN patches : Cardinality(DOMAIN patches[k]) >= 2

\* C2: a savePatch whose every submitted field equals the value of the base
\* record (an absent field counting as empty) leaves the store and the
\* persisted item as they were and does not call savePatches.
C2_NoOpGuard ==
    [][ savePatch /\ Retained = {} =>
            /\ patches' = patches
            /\ localStorage' = localStorage
            /\ lastSave' = "skipped"
      ]_vars

\* C2 witness: savePatch has just skipped an edit while the store holds
\* patches
C2_Witness == lastSave = "skipped" /\ patches # <<>>

\* C3: no stored patch is empty, and every field of a stored patch differs
\* from the value of that field in every base record whose identity maps to
\* the key.
C3_PatchHoldsOnlyChangedFields ==
    \A kind \in Kinds : \A b \in BaseRecords(kind) :
        KeyOf(kind, b) \in DOMAIN patches =>
            /\ DOMAIN patches[KeyOf(kind, b)] # {}
            /\ \A f \in DOMAIN patches[KeyOf(kind, b)] :
                  f \in DOMAIN b => patches[KeyOf(kind, b)][f] # b[f]

\* C9: right after savePatch the effective record of the edited entry shows
\* the submitted value of every field of the modal.
C9_ReadObservesSave ==
    [][ savePatch =>
            \A f \in ModalFields(editingEntry.type) :
                OrEmpty(getEntryWithPatchIn(patches', editingEntry.type,
                                            editingEntry.entry), f) = Submitted(f)
      ]_vars

\* C10: the store always equals what loadPatches reads from the persisted
\* item, every key is "<kind>:<identifier>" for a base record, and a step
\* changes the store only if it is a savePatch that persists it; reset and
\* uploads leave it as it was.
C10_OnlySavePatchWritesAndPersists ==
    /\ [](/\ loadPatches(localStorage) = patches
          /\ \A k \in DOMAIN patches :
                \E kind \in Kinds :
                    \E b \in IF kind = "unknown" THEN AllMorphemes ELSE BaseRecords(kind) :
                        k = KeyOf(kind, b))
    /\ [][ patches' # patches =>
              /\ savePatch
              /\ lastSave' \in {"created", "merged"}
              /\ localStorage' = Stringify(patches')
         ]_vars

\* C10 witness: a reset has emptied the documents and the store still holds
\* the patches saved before it
C10_Witness == alignments = null /\ patches # <<>> /\ lastSave = "none"

\* the gloss an unknown morpheme shows under store: the gloss of the unknown
\* patch of its form, else its own
EffectiveGloss(store, m) ==
    IF KeyOf("unknown", m) \in DOMAIN store /\ "gloss" \in DOMAIN store[KeyOf("unknown", m)]
    THEN store[KeyOf("unknown", m)].gloss
    ELSE m.gloss

Resolved(store, m) ==
    EffectiveGloss(store, m) # EmptyText /\ EffectiveGloss(store, m) # m.gloss

\* the status the classification rule gives a word under store
StatusRule(store, word) ==
    LET ms == word.morphemes
        someUnresolved ==
            \E i \in 1..Len(ms) : ms[i].type = "unknown" /\ ~Resolved(store, ms[i])
        someResolved ==
            \E i \in 1..Len(ms) : ms[i].type = "unknown" /\ Resolved(store, ms[i])
        someKnown == \E i \in 1..Len(ms) : ms[i].type # "unknown"
    IN  IF someUnresolved /\ (someKnown \/ someResolved) THEN "mixed"
        ELSE IF someUnresolved THEN "unknown"
        ELSE IF someResolved THEN "patched"
        ELSE "known"

\* word has one known morpheme and one unknown morpheme, m, unresolved
OneKnownOneUnresolved(word, m) ==
    /\ Len(word.morphemes) = 2
    /\ \E i, j \in 1..2 :
          /\ i # j
          /\ word.morphemes[i].type # "unknown"
          /\ word.morphemes[j] = m
    /\ m.type = "unknown"
    /\ ~Resolved(patches, m)

\* this step is a savePatch that stores a gloss under the unknown key of m
SavesGlossFor(m) ==
    /\ savePatch
    /\ editingEntry.type = "unknown"
    /\ EditKey = KeyOf("unknown", m)
    /\ "gloss" \in Retained

\* C4 as stated: getWordStatus follows the classification rule in every
\* state, and a word of one known and one unresolved unknown morpheme is
\* mixed and is patched right after any savePatch that stores a gloss for the
\* form of the unknown morpheme.
C4_StatusAsStated ==
    /\ [](\A w \in AllWords : getWordStatus(w) = StatusRule(patches, w))
    /\ [][ \A w \in AllWords : \A m \in AllMorphemes :
              OneKnownOneUnresolved(w, m) =>
                  /\ getWordStatus(w) = "mixed"
                  /\ SavesGlossFor(m) => getWordStatusIn(patches', w) = "patched"
         ]_vars

\* C4 amended: the same, the word being patched right after a savePatch that
\* stores, for the form of the unknown morpheme, a gloss that is not empty
\* and differs from the gloss of that morpheme.
C4_StatusAmended ==
    /\ [](\A w \in AllWords : getWordStatus(w) = StatusRule(patches, w))
    /\ [][ \A w \in AllWords : \A m \in AllMorphemes :
              OneKnownOneUnresolved(w, m) =>
                  /\ getWordStatus(w) = "mixed"
                  /\ (/\ SavesGlossFor(m)
                      /\ Submitted("gloss") # EmptyText
                      /\ Submitted("gloss") # m.gloss)
                     => getWordStatusIn(patches', w) = "patched"
         ]_vars

\* C4 witness: a gloss has just been saved and a word of one known and one
\* unknown morpheme is patched
C4_Witness ==
    /\ lastSave \in {"created", "merged"}
    /\ \E w \in AllWords :
          /\ Len(w.morphemes) = 2
          /\ \E i \in 1..2 : w.morphemes[i].type = "unknown"
          /\ \E i \in 1..2 : w.morphemes[i].type # "unknown"
          /\ getWordStatus(w) = "patched"

\* the effective record of a base record of a kind
Effective(kind, record) ==
    IF KeyOf(kind, record) \in DOMAIN patches
    THEN [f \in DOMAIN record \cup DOMAIN patches[KeyOf(kind, record)] |->
            IF f \in DOMAIN patches[KeyOf(kind, record)]
            THEN patches[KeyOf(kind, record)][f] ELSE record[f]]
    ELSE record

\* text contains the query, whatever the case of either
ContainsQuery(text, query) == includes(toLowerCase(text), toLowerCase(query))

\* the query is empty or found in the effective form or gloss, and for a
\* rule also in the effective description
MatchesQuery(kind, record) ==
    \/ sidebarSearch = EmptyText
    \/ ContainsQuery(Effective(kind, record).form, sidebarSearch)
    \/ ContainsQuery(Effective(kind, record).gloss, sidebarSearch)
    \/ /\ kind = "rule"
       /\ "description" \in DOMAIN Effective(kind, record)
       /\ ContainsQuery(Effective(kind, record).description, sidebarSearch)

\* list is ascending by effective form
AscendingByEffectiveForm(kind, list) ==
    \A i, j \in 1..Len(list) :
        i < j => localeCompare(Effective(kind, list[i]).form,
                               Effective(kind, list[j]).form) <= 0

\* view holds the first Limit elements of a sorting of list by effective form
FirstOfSorted(kind, view, list) ==
    /\ Len(view) = (IF Len(list) < Limit THEN Len(list) ELSE Limit)
    /\ \A i, j \in 1..Len(view) : i # j => view[i] # view[j]
    /\ Range(view) \subseteq Range(list)
    /\ AscendingByEffectiveForm(kind, view)
    /\ \A e \in Range(list) \ Range(view) : \A v \in Range(view) :
          localeCompare(Effective(kind, v).form, Effective(kind, e).form) <= 0

\* C5: the glossary view is the first 50 entries of the filtered entries
\* sorted ascending by effective form.
C5_FirstFiftySortedByEffectiveForm ==
    glossary # null => FirstOfSorted("glossary", getFilteredGlossary, FoundGlossary)

\* the base records of a kind that the views range over
Loaded(kind) == IF kind = "glossary" THEN glossary.entries ELSE rules.rules

\* the records of a kind whose id a morpheme of that kind of the selected
\* word names
ScopedSet(kind) ==
    {e \in Range(Loaded(kind)) : e.id \in SourceIds(selectedWord.word, kind)}

\* the glossary view holds exactly the records of set, up to the limit
GlossaryViewIs(set) ==
    /\ Range(getFilteredGlossary) \subseteq set
    /\ Cardinality(set) <= Limit => Range(getFilteredGlossary) = set

\* C6 as stated: with a word selected, each view holds the records its
\* morphemes of that kind name, cut down to the matches of the query; a word
\* that names none has an empty view.
C6_ScopedAsStated ==
    selectedWord # null /\ isDataLoaded =>
        /\ GlossaryViewIs({e \in ScopedSet("glossary") : MatchesQuery("glossary", e)})
        /\ ~getFilteredRules.threw
        /\ Range(getFilteredRules.value) = {r \in ScopedSet("rule") : MatchesQuery("rule", r)}

\* the records of a kind the selection leaves: the named ones, all when the
\* selected word names none
ScopedOrAll(kind) ==
    IF SourceIds(selectedWord.word, kind) # {} THEN ScopedSet(kind)
    ELSE Range(Loaded(kind))

\* the rule search raises: a query is active and one of the rules searched
\* has no effective description and matches neither in form nor in gloss
RuleSearchRaises(set) ==
    /\ sidebarSearch # EmptyText
    /\ \E r \in set :
          /\ "description" \notin DOMAIN Effective("rule", r)
          /\ ~MatchesQuery("rule", r)

\* C6 amended: with a word selected that names records of the kind, each
\* view holds those records cut down to the matches of the query; with a word
\* that names none the view is not scoped and holds all matches; the rule
\* view raises instead when the search meets a rule without description.
C6_ScopedAmended ==
    selectedWord # null /\ isDataLoaded =>
        /\ GlossaryViewIs({e \in ScopedOrAll("glossary") : MatchesQuery("glossary", e)})
        /\ getFilteredRules.threw = RuleSearchRaises(ScopedOrAll("rule"))
        /\ ~getFilteredRules.threw =>
              Range(getFilteredRules.value)
                  = {r \in ScopedOrAll("rule") : MatchesQuery("rule", r)}

\* C6 witness: a word that names a glossary entry is selected, a query is
\* active, and the glossary view holds the named entry and not all entries
C6_Witness ==
    /\ selectedWord # null
    /\ isDataLoaded
    /\ sidebarSearch # EmptyText
    /\ SourceIds(selectedWord.word, "glossary") # {}
    /\ getFilteredGlossary # <<>>
    /\ Len(getFilteredGlossary) < Len(glossary.entries)

\* m names a record of the kind that the loaded document holds
Names(m, kind) ==
    /\ "source_type" \in DOMAIN m
    /\ m.source_type = kind
    /\ \E e \in Range(Loaded(kind)) : e.id = m.source_id

\* result is what the i-th morpheme m of a word resolves to
ResolvesTo(result, m) ==
    /\ result.morpheme = m
    /\ \A kind \in {"glossary", "rule"} :
          result.type = kind <=>  Names(m, kind)
    /\ result.type \in {"glossary", "rule"} =>
          /\ result.originalEntry \in Range(Loaded(result.type))
          /\ result.originalEntry.id = m.source_id
          /\ result.entry = Effective(result.type, result.originalEntry)
    /\ result.type \notin {"glossary", "rule"} =>
          result = [type |-> "unknown", morpheme |-> m]

\* C7: with the documents loaded, getMorphemeEntries gives a word one result
\* per morpheme, in order: the named glossary entry or rule with its effective
\* record when the reference resolves, else kind unknown with the morpheme.
C7_MorphemeEntries ==
    isDataLoaded =>
        \A w \in Words :
            /\ Len(getMorphemeEntries(w.word)) = Len(w.word.morphemes)
            /\ \A i \in 1..Len(w.word.morphemes) :
                  ResolvesTo(getMorphemeEntries(w.word)[i], w.word.morphemes[i])

\* C7 witness: the selected word resolves to a patched rule followed by a
\* dangling reference
C7_Witness ==
    /\ isDataLoaded
    /\ selectedWord # null
    /\ Len(selectedWord.word.morphemes) = 2
    /\ LET r == getMorphemeEntries(selectedWord.word)
       IN  /\ r[1].type = "rule"
           /\ r[1].entry # r[1].originalEntry
           /\ r[2].type = "unknown"
           /\ "source_id" \in DOMAIN r[2].morpheme

\* C8: the rule view never raises and returns every rule the selection
\* leaves that matches the query, all of them.
C8_RuleViewTotal ==
    rules # null =>
        /\ ~getFilteredRules.threw
        /\ Range(getFilteredRules.value)
              = {r \in Range(Scope(rules.rules, "rule")) : MatchesQuery("rule", r)}
        /\ Len(getFilteredRules.value)
              = Cardinality({r \in Range(Scope(rules.rules, "rule")) : MatchesQuery("rule", r)})

====
